---- MODULE Spec2Model ----
(***************************************************************************)
(* Model of mininet/topo.py: the MultiGraph store and the Topo topology    *)
(* model (node registration, link addition, port assignment, metadata).    *)
(*                                                                         *)
(* Python values are represented as follows.                               *)
(*   - a node name is a TLA+ string; Chars spells it character by          *)
(*     character so that string comparison can be computed;                *)
(*   - a dict of keyword options is a set of <<key, value>> pairs;         *)
(*   - a dict keyed by node names or by name pairs is a function whose     *)
(*     DOMAIN is the key set;                                              *)
(*   - the port argument None is the value None (-1); port numbers given   *)
(*     by callers are drawn from the naturals.                             *)
(***************************************************************************)
EXTENDS Integers, Sequences, FiniteSets, TLC

\* ------------------------------------------------------------------ bounds
\* Number of calls made on a topology in a run of Spec, of SpecLinks, of
\* SpecAuto and of SpecTwin.
MaxCalls == 3
MaxLinkCalls == 4
MaxAutoCalls == 6
MaxTwinCalls == 4

\* ------------------------------------------------------------------ inputs
\* the names a caller may pass; the runs of Spec and SpecTwin use Names
AllNames == {"h2", "h10", "s1"}
Names == {"h2", "h10"}

Chars(n) ==
    CASE n = "h2"  -> <<"h", "2">>
      [] n = "h10" -> <<"h", "1", "0">>
      [] n = "s1"  -> <<"s", "1">>

None == -1
\* port1=0, port2=(k - h + 1) as in SingleSwitchReversedTopo, or no port
Port1Args == {None, 0}
Port2Args == {None, 2}

\* The options callers pass.  The role adders are called without options,
\* so a host gets the default options hopts and a switch, whose default
\* sopts is empty, gets none; addLink is called with and without options.
EmptyDict == {}
NodeOptsIn == {EmptyDict}
AddNodeOptsIn == {EmptyDict}
InfoIn == {{<<"isSwitch", TRUE>>}}
LinkOptsIn == {EmptyDict, {<<"bw", TRUE>>}}
LinkInfoIn == {{<<"loss", TRUE>>}}

\* the constructor's arguments: defaults for hosts and links, none for the rest
CtorArgs ==
    {[hopts |-> {<<"dflt", TRUE>>}, sopts |-> EmptyDict,
      lopts |-> {<<"dflt", TRUE>>}, lropts |-> EmptyDict, lsopts |-> EmptyDict,
      tpropts |-> EmptyDict, hiopts |-> EmptyDict]}

\* ------------------------------------------------- Python string ordering
\* ord() of the characters used in Names
Code(c) ==
    CASE c = "0" -> 48 [] c = "1" -> 49 [] c = "2" -> 50
      [] c = "h" -> 104 [] c = "s" -> 115

isdigit(c) == Code(c) >= 48 /\ Code(c) <= 57

\* s < t for two character sequences, as Python compares str values
strLess(s, t) ==
    \E i \in 1..(Len(s) + 1) :
        /\ \A j \in 1..(i - 1) : j <= Len(t) /\ s[j] = t[j]
        /\ \/ i = Len(s) + 1 /\ Len(t) >= i
           \/ i <= Len(s) /\ i <= Len(t) /\ Code(s[i]) < Code(t[i])

\* variant: the pair is kept in the order given
pySortedAsGiven(a, b) == <<a, b>>

\* sorted( ( src, dest ) ) of the built-in sort on two names
pySorted(a, b) == IF strLess(Chars(b), Chars(a)) THEN <<b, a>> ELSE <<a, b>>

\* --------------------------------------------------- natural (mininet.util)
RECURSIVE split(_, _, _, _)
split(text, cur, inDigits, acc) ==
    IF text = <<>>
    THEN IF inDigits THEN acc \o <<cur, <<>> >> ELSE Append(acc, cur)
    ELSE LET c == Head(text) IN
         IF isdigit(c) = inDigits
         THEN split(Tail(text), Append(cur, c), inDigits, acc)
         ELSE split(Tail(text), <<c>>, ~inDigits, Append(acc, cur))

\* re.split( r'(\d+)', text ): text runs at odd positions, digit runs at even
re_split(text) == split(text, <<>>, FALSE, <<>>)

RECURSIVE int(_)
int(digits) ==
    IF digits = <<>> THEN 0
    ELSE 10 * int(SubSeq(digits, 1, Len(digits) - 1))
         + (Code(digits[Len(digits)]) - 48)

\* a token is <<0, number>> or <<1, text>>
natural(n) ==
    LET runs == re_split(Chars(n)) IN
    [i \in 1..Len(runs) |->
        IF i % 2 = 0 THEN <<0, int(runs[i])>> ELSE <<1, runs[i]>>]

tokLess(a, b) ==
    \/ a[1] < b[1]
    \/ a[1] = b[1] /\ IF a[1] = 0 THEN a[2] < b[2] ELSE strLess(a[2], b[2])

\* x < y for two token lists
keyLess(x, y) ==
    \E i \in 1..(Len(x) + 1) :
        /\ \A j \in 1..(i - 1) : j <= Len(y) /\ x[j] = y[j]
        /\ \/ i = Len(x) + 1 /\ Len(y) >= i
           \/ i <= Len(x) /\ i <= Len(y) /\ tokLess(x[i], y[i])

natLess(a, b) == keyLess(natural(a), natural(b))

\* Topo.sorted( [a, b] )
sorted(a, b) == IF natLess(b, a) THEN <<b, a>> ELSE <<a, b>>

\* ---------------------------------------------------------------- state
VARIABLES
    defaults,    \* hopts, sopts, lopts, lropts, lsopts, tpropts, hiopts
    data,        \* g.data: node -> list of dest names
    node_info,   \* node -> options
    link_info,   \* <<src, dst>> -> options
    ports,       \* ports[src][dst] is port on src that connects to dst
    registered,  \* history: names passed to addNode
    infoNames,   \* history: names passed to setNodeInfo
    infoPairs,   \* history: keys written by setlinkInfo
    count,       \* history: key -> number of addLink calls that returned it
    recent,      \* history: key -> the latest addLink call that returned it
    nlinks,      \* history: node -> number of addLink calls that returned at it
    last,        \* history: the latest call, if it was addLink, and its outcome
    budget,      \* number of calls the run may still make
    portsB,      \* second run: its port table
    lastB,       \* second run: the port pair its latest addLink call assigned
    varied       \* second run: an addLink call was given other ports

topo == <<defaults, data, node_info, link_info, ports>>
hist == <<registered, infoNames, infoPairs, count, recent, nlinks, last, budget>>
twin == <<portsB, lastB, varied>>
vars == <<topo, hist, twin>>

Keys == {sorted(a, b) : a \in AllNames, b \in AllNames}

NoCall ==
    [op |-> "none", node1 |-> "", node2 |-> "", port1 |-> None, port2 |-> None,
     sport |-> None, dport |-> None, sw1 |-> FALSE, sw2 |-> FALSE,
     raised |-> FALSE, key |-> <<>>, opts |-> EmptyDict, varied |-> FALSE]
EmptyTable == [x \in {} |-> 0]

\* ------------------------------------------------------------ MultiGraph
\* self.data.setdefault( node, [] )
add_node(d, node) ==
    IF node \in DOMAIN d THEN d
    ELSE [x \in DOMAIN d \cup {node} |-> IF x = node THEN <<>> ELSE d[x]]

\* variant: a pair already joined is not recorded again
add_edgeOnce(d, src, dest) ==
    LET p  == pySorted(src, dest)
        d2 == add_node(add_node(d, p[1]), p[2])
    IN  IF \E i \in 1..Len(d2[p[1]]) : d2[p[1]][i] = p[2] THEN d2
        ELSE [d2 EXCEPT ![p[1]] = Append(@, p[2])]

add_edge(d, src, dest) ==
    LET p  == pySorted(src, dest)
        d2 == add_node(add_node(d, p[1]), p[2])
    IN  [d2 EXCEPT ![p[1]] = Append(@, p[2])]

\* the keys of a dict in the order the iteration meets them
RECURSIVE keys(_)
keys(S) ==
    IF S = {} THEN <<>>
    ELSE LET k == CHOOSE k \in S : TRUE IN <<k>> \o keys(S \ {k})

RECURSIVE edgesFrom(_, _)
edgesFrom(d, ks) ==
    IF ks = <<>> THEN <<>>
    ELSE [i \in 1..Len(d[Head(ks)]) |-> <<Head(ks), d[Head(ks)][i]>>]
         \o edgesFrom(d, Tail(ks))

\* the pairs ( src, dest ) the iterator yields
edges(d) == edgesFrom(d, keys(DOMAIN d))

\* ------------------------------------------------------------------ Topo
\* kwargs of a call: flag=True merged with **opts
kw(flag, opts) == {<<flag, TRUE>>} \cup opts

\* "if not opts and self.Xopts: opts = self.Xopts"
orDefault(opts, dflt) == IF opts = EmptyDict /\ dflt # EmptyDict THEN dflt ELSE opts

\* self.node_info[n] raises KeyError
noInfo(n) == n \notin DOMAIN node_info

\* truth value of "info and info.get('isSwitch', False)"
isSwitch(n) ==
    /\ node_info[n] # EmptyDict
    /\ <<"isSwitch", TRUE>> \in node_info[n]

\* self.ports.setdefault(n, {})
setdefault(ps, n) ==
    IF n \in DOMAIN ps THEN ps
    ELSE [x \in DOMAIN ps \cup {n} |-> IF x = n THEN EmptyTable ELSE ps[x]]

\* ps[a][b] = p
setPort(ps, a, b, p) ==
    [ps EXCEPT ![a] = [x \in DOMAIN ps[a] \cup {b} |-> IF x = b THEN p ELSE ps[a][x]]]

\* variant: the port given by the caller is ignored
newPortIgnoresGiven(ps, n, given) ==
    Cardinality(DOMAIN ps[n]) + (IF isSwitch(n) THEN 1 ELSE 0)

\* variant: the new port follows the highest port in use
newPortAfterHighest(ps, n, given) ==
    IF given = None
    THEN IF DOMAIN ps[n] = {} THEN (IF isSwitch(n) THEN 1 ELSE 0)
         ELSE 1 + CHOOSE p \in {ps[n][x] : x \in DOMAIN ps[n]} :
                     \A x \in DOMAIN ps[n] : ps[n][x] <= p
    ELSE given

\* "New port: number of outlinks + base", or the port given
newPort(ps, n, given) ==
    IF given = None
    THEN Cardinality(DOMAIN ps[n]) + (IF isSwitch(n) THEN 1 ELSE 0)
    ELSE given

\* addPort raises: one of the two isSwitch lookups fails
addPortRaises(src, dst) == noInfo(src) \/ noInfo(dst)

\* variant: ports[src][dst] is written before the second lookup raises
addPortAbortedLate(ps, src, dst) ==
    LET p0 == setdefault(setdefault(ps, src), dst)
    IN  IF noInfo(src) THEN p0
        ELSE setPort(p0, src, dst, Cardinality(DOMAIN p0[src]))

\* the port table addPort leaves behind when it raises
addPortAborted(ps, src, dst) == setdefault(setdefault(ps, src), dst)

\* variant: only the source's side of the mapping is written
addPortOneWay(ps, src, dst, sport, dport) ==
    LET p0 == setdefault(setdefault(ps, src), dst)
    IN  setPort(p0, src, dst, newPort(p0, src, sport))

\* the port table addPort leaves behind when it returns
addPort(ps, src, dst, sport, dport) ==
    LET p0 == setdefault(setdefault(ps, src), dst)
        s  == newPort(p0, src, sport)
        t  == newPort(p0, dst, dport)
    IN  setPort(setPort(p0, src, dst, s), dst, src, t)

\* key = tuple(self.sorted([node1, node2]))
linkKey(node1, node2) == sorted(node1, node2)

\* d[k] = v on a dict keyed by pairs
setItem(d, k, v) == [x \in DOMAIN d \cup {k} |-> IF x = k THEN v ELSE d[x]]

\* port(src, dst): <<src_port, dst_port>>, <<>> for the implicit None,
\* <<"AssertionError">> when the assert fails
port(ps, src, dst) ==
    IF src \in DOMAIN ps /\ dst \in DOMAIN ps[src]
    THEN IF dst \in DOMAIN ps /\ src \in DOMAIN ps[dst]
         THEN <<ps[src][dst], ps[dst][src]>>
         ELSE <<"AssertionError">>
    ELSE <<>>

\* variant: the pair is looked up as given
lookupKeyAsGiven(src, dst) == <<src, dst>>

\* "src, dst = self.sorted([src, dst])" in linkInfo
lookupKey(src, dst) == sorted(src, dst)

\* self.link_info[(src, dst)] raises KeyError
linkInfoRaises(src, dst) == lookupKey(src, dst) \notin DOMAIN link_info

\* the metadata linkInfo returns when the lookup succeeds
linkInfo(src, dst) == link_info[lookupKey(src, dst)]

nodes == DOMAIN data

\* x < y for two pairs under key=naturalSeq
pairLess(x, y) ==
    \/ natLess(x[1], y[1])
    \/ natural(x[1]) = natural(y[1]) /\ natLess(x[2], y[2])

\* links(sort): the list of name pairs
links(sort) ==
    IF ~sort THEN edges(data)
    ELSE LET es == edges(data)
             l  == [i \in 1..Len(es) |-> sorted(es[i][1], es[i][2])]
         IN  SortSeq(l, pairLess)

\* --------------------------------------------------------------- actions
Construct(calls) ==
    /\ defaults \in CtorArgs
    /\ data = [x \in {} |-> <<>>]
    /\ node_info = [x \in {} |-> EmptyDict]
    /\ link_info = [x \in {} |-> EmptyDict]
    /\ ports = [x \in {} |-> EmptyTable]
    /\ registered = {}
    /\ infoNames = {}
    /\ infoPairs = {}
    /\ count = [k \in Keys |-> 0]
    /\ recent = [k \in Keys |-> NoCall]
    /\ nlinks = [n \in AllNames |-> 0]
    /\ last = NoCall
    /\ budget = calls
    /\ portsB = [x \in {} |-> EmptyTable]
    /\ lastB = <<>>
    /\ varied = FALSE

addNode(name, opts) ==
    /\ budget > 0
    /\ data' = add_node(data, name)
    /\ node_info' = setItem(node_info, name, opts)
    /\ registered' = registered \cup {name}
    /\ budget' = budget - 1
    /\ last' = NoCall
    /\ UNCHANGED <<defaults, link_info, ports, infoNames, infoPairs, count,
                   recent, nlinks, twin>>

addHost(name, opts) == addNode(name, kw("isHost", orDefault(opts, defaults.hopts)))

addSwitch(name, opts) == addNode(name, kw("isSwitch", orDefault(opts, defaults.sopts)))

addLegacySwitch(name, opts) ==
    addNode(name, kw("isLegacySwitch", orDefault(opts, defaults.lsopts)))

addHostInterface(name, opts) ==
    addNode(name, kw("isHostInterface", orDefault(opts, defaults.hiopts)))

addLegacyRouter(name, opts) ==
    addNode(name, kw("isLegacyRouter", orDefault(opts, defaults.lropts)))

addTransitPortalRouter(name, opts) ==
    addNode(name, kw("isTransitPortalRouter", orDefault(opts, defaults.tpropts)))

\* the ports addPort computes for the two ends (sport, dport)
assigned(ps, src, dst, sport, dport) ==
    LET p0 == setdefault(setdefault(ps, src), dst)
    IN  <<newPort(p0, src, sport), newPort(p0, dst, dport)>>

\* addLink's statements after addPort: the metadata, then the edge
commitLink(key, opts) ==
    /\ link_info' = setItem(link_info, key, opts)
    /\ data' = add_edge(data, key[1], key[2])

\* variant: the edge is recorded before addPort is called
abortLinkEdgeFirst(node1, node2) ==
    /\ ports' = addPortAborted(ports, node1, node2)
    /\ data' = add_edge(data, linkKey(node1, node2)[1], linkKey(node1, node2)[2])
    /\ UNCHANGED link_info

\* addLink when addPort raises: the statements after it are not reached
abortLink(node1, node2) ==
    /\ ports' = addPortAborted(ports, node1, node2)
    /\ UNCHANGED <<data, link_info>>

\* isVaried: the second run passes other ports to this call
addLink(node1, node2, port1, port2, o, isVaried) ==
    LET opts == orDefault(o, defaults.lopts)
        key  == linkKey(node1, node2)
        pp   == assigned(ports, node1, node2, port1, port2)
        call == [NoCall EXCEPT !.op = "addLink", !.node1 = node1,
                               !.node2 = node2, !.raised = TRUE]
        done == [call EXCEPT !.port1 = port1, !.port2 = port2,
                             !.sport = pp[1], !.dport = pp[2],
                             !.sw1 = isSwitch(node1), !.sw2 = isSwitch(node2),
                             !.raised = FALSE, !.key = key, !.opts = opts,
                             !.varied = isVaried]
    IN  /\ budget > 0
        /\ budget' = budget - 1
        /\ IF addPortRaises(node1, node2)
           THEN /\ abortLink(node1, node2)
                /\ last' = call
                /\ UNCHANGED <<count, recent, nlinks>>
           ELSE /\ ports' = addPort(ports, node1, node2, port1, port2)
                /\ commitLink(key, opts)
                /\ count' = [count EXCEPT ![key] = @ + 1]
                /\ recent' = [recent EXCEPT ![key] = done]
                /\ nlinks' = [n \in AllNames |->
                                IF n \in {node1, node2} THEN nlinks[n] + 1
                                ELSE nlinks[n]]
                /\ last' = done
        /\ UNCHANGED <<defaults, node_info, registered, infoNames, infoPairs>>

setlinkInfo(src, dst, info) ==
    /\ budget > 0
    /\ link_info' = setItem(link_info, sorted(src, dst), info)
    /\ infoPairs' = infoPairs \cup {sorted(src, dst)}
    /\ budget' = budget - 1
    /\ last' = NoCall
    /\ UNCHANGED <<defaults, data, node_info, ports, registered, infoNames,
                   count, recent, nlinks, twin>>

setNodeInfo(name, info) ==
    /\ budget > 0
    /\ node_info' = setItem(node_info, name, info)
    /\ infoNames' = infoNames \cup {name}
    /\ budget' = budget - 1
    /\ last' = NoCall
    /\ UNCHANGED <<defaults, data, link_info, ports, registered, infoPairs,
                   count, recent, nlinks, twin>>

\* the same addLink call made in the second run, with ports q1, q2
twinLink(node1, node2, q1, q2) ==
    IF addPortRaises(node1, node2)
    THEN /\ portsB' = addPortAborted(portsB, node1, node2)
         /\ lastB' = <<>>
    ELSE /\ portsB' = addPort(portsB, node1, node2, q1, q2)
         /\ lastB' = assigned(portsB, node1, node2, q1, q2)

\* ------------------------------------------------------------ the callers
CallAddNode(N) == \E name \in N, opts \in AddNodeOptsIn : addNode(name, opts)
CallAddHost(N) == \E name \in N, opts \in NodeOptsIn : addHost(name, opts)
CallAddSwitch(N) == \E name \in N, opts \in NodeOptsIn : addSwitch(name, opts)
CallAddLegacySwitch(N) ==
    \E name \in N, opts \in NodeOptsIn : addLegacySwitch(name, opts)
CallAddHostInterface(N) ==
    \E name \in N, opts \in NodeOptsIn : addHostInterface(name, opts)
CallAddLegacyRouter(N) ==
    \E name \in N, opts \in NodeOptsIn : addLegacyRouter(name, opts)
CallAddTransitPortalRouter(N) ==
    \E name \in N, opts \in NodeOptsIn : addTransitPortalRouter(name, opts)
CallSetNodeInfo(N) == \E name \in N, info \in InfoIn : setNodeInfo(name, info)
CallSetLinkInfo(N) ==
    \E src \in N, dst \in N, info \in LinkInfoIn : setlinkInfo(src, dst, info)
CallAddLink(N) ==
    \E node1 \in N, node2 \in N, port1 \in Port1Args, port2 \in Port2Args,
       o \in LinkOptsIn :
        addLink(node1, node2, port1, port2, o, FALSE) /\ UNCHANGED twin
\* addLink( node1, node2 ) between two nodes, as the canned topologies call it
CallAddLinkAuto(N) ==
    \E node1 \in N :
        \E node2 \in N \ {node1} :
            addLink(node1, node2, None, None, EmptyDict, FALSE) /\ UNCHANGED twin

\* every operation of the topology model
Init == Construct(MaxCalls)

Next ==
    \/ CallAddNode(Names)
    \/ CallAddHost(Names)
    \/ CallAddSwitch(Names)
    \/ CallAddLegacySwitch(Names)
    \/ CallAddHostInterface(Names)
    \/ CallAddLegacyRouter(Names)
    \/ CallAddTransitPortalRouter(Names)
    \/ CallSetNodeInfo(Names)
    \/ CallSetLinkInfo(Names)
    \/ CallAddLink(Names)

Spec == Init /\ [][Next]_vars

\* topologies built by registering nodes and linking them, each link with
\* or without ports and options
InitLinks == Construct(MaxLinkCalls)

NextLinks ==
    \/ CallAddNode(Names)
    \/ CallAddSwitch(Names)
    \/ CallAddLink(Names)

SpecLinks == InitLinks /\ [][NextLinks]_vars

\* topologies built with the role adders and addLink without explicit ports
InitAuto == Construct(MaxAutoCalls)

NextAuto ==
    \/ CallAddHost(AllNames)
    \/ CallAddSwitch(AllNames)
    \/ CallAddLegacySwitch(AllNames)
    \/ CallAddHostInterface(AllNames)
    \/ CallAddLegacyRouter(AllNames)
    \/ CallAddTransitPortalRouter(AllNames)
    \/ CallAddLinkAuto(AllNames)

SpecAuto == InitAuto /\ [][NextAuto]_vars

\* two runs of one sequence of calls; the second run passes other ports
\* (or none) to one addLink call.  The calls other than addLink neither read
\* nor write the port table, and addLink's other effects do not depend on
\* it, so the second run shares every variable but the port table.
TwinSame ==
    \E node1 \in Names, node2 \in Names, port1 \in Port1Args, port2 \in Port2Args :
        /\ addLink(node1, node2, port1, port2, EmptyDict, FALSE)
        /\ twinLink(node1, node2, port1, port2)
        /\ UNCHANGED varied
TwinVaried ==
    \E node1 \in Names, node2 \in Names, port1 \in Port1Args, port2 \in Port2Args,
       q1 \in Port1Args, q2 \in Port2Args :
        /\ ~varied
        /\ ~addPortRaises(node1, node2)
        /\ <<q1, q2>> # <<port1, port2>>
        /\ addLink(node1, node2, port1, port2, EmptyDict, TRUE)
        /\ twinLink(node1, node2, q1, q2)
        /\ varied' = TRUE

InitTwin == Construct(MaxTwinCalls)

NextTwin ==
    \/ CallAddNode(Names)
    \/ CallAddSwitch(Names)
    \/ TwinSame
    \/ TwinVaried

SpecTwin == InitTwin /\ [][NextTwin]_vars

\* ---------------------------------------------------------------- claims
\* number of times x occurs in the list l
occurrences(l, x) == Cardinality({i \in 1..Len(l) : l[i] = x})

\* the ports the call r gave its two ends, seen from node1 and from node2
explicitBoth(r) == r.port1 # None /\ r.port2 # None

\* C1 as stated: for all nodes A and B joined by a single link added with
\* both ports explicit, port(A,B) is (p1,p2) and port(B,A) is (p2,p1).
C1_AnyEndpoints ==
    \A k \in Keys :
        (count[k] = 1 /\ explicitBoth(recent[k])) =>
            LET r == recent[k] IN
            /\ port(ports, r.node1, r.node2) = <<r.port1, r.port2>>
            /\ port(ports, r.node2, r.node1) = <<r.port2, r.port1>>

\* C1 amended: for all distinct nodes A and B joined by a single link added
\* with both ports explicit, port(A,B) is (p1,p2) and port(B,A) is (p2,p1).
C1_DistinctEndpoints ==
    \A k \in Keys :
        (count[k] = 1 /\ explicitBoth(recent[k])
            /\ recent[k].node1 # recent[k].node2) =>
            LET r == recent[k] IN
            /\ port(ports, r.node1, r.node2) = <<r.port1, r.port2>>
            /\ port(ports, r.node2, r.node1) = <<r.port2, r.port1>>

\* a single explicit link joins two distinct nodes and a later addLink call
\* has added another link at one of them
C1_Witness ==
    \E k \in Keys :
        /\ count[k] = 1 /\ explicitBoth(recent[k])
        /\ recent[k].node1 # recent[k].node2
        /\ last.op = "addLink" /\ ~last.raised /\ last.key # k
        /\ port(ports, recent[k].node1, recent[k].node2) = <<0, 2>>

\* C2 as stated: with role adders and addLink without ports only, the n-th
\* link added at a node gives that node's end port n if the node is a
\* switch and n-1 otherwise.
C2_NthLinkPort ==
    (last.op = "addLink" /\ ~last.raised) =>
        /\ last.sport = nlinks[last.node1] - (IF last.sw1 THEN 0 ELSE 1)
        /\ last.dport = nlinks[last.node2] - (IF last.sw2 THEN 0 ELSE 1)

\* C3: the port table is symmetric in every reachable state, so the
\* assertion in port(src, dst) does not fail.
C3_PortsSymmetric ==
    \A a \in AllNames, b \in AllNames :
        /\ (a \in DOMAIN ports /\ b \in DOMAIN ports[a]) =>
                (b \in DOMAIN ports /\ a \in DOMAIN ports[b])
        /\ port(ports, a, b) # <<"AssertionError">>

\* an addLink call has raised, leaving an empty table, next to a recorded
\* port mapping
C3_Witness ==
    /\ last.op = "addLink" /\ last.raised
    /\ \E a \in DOMAIN ports : ports[a] = EmptyTable
    /\ \E a \in DOMAIN ports : ports[a] # EmptyTable

\* C4 as stated: with node additions and addLink without ports only, no
\* node's port table maps two different neighbours to one port number.
C4_NoCollision ==
    \A n \in DOMAIN ports :
        \A a \in DOMAIN ports[n], b \in DOMAIN ports[n] :
            a # b => ports[n][a] # ports[n][b]

\* C5: an addLink call that both runs make with the same arguments gets, on
\* each end whose port it leaves out, the same port in both runs, whatever
\* ports the varied call was given.
C5_AutoUnaffected ==
    (last.op = "addLink" /\ ~last.raised /\ ~last.varied) =>
        /\ last.port1 = None => last.sport = lastB[1]
        /\ last.port2 = None => last.dport = lastB[2]

\* the runs' port tables differ because of the varied call, and both runs
\* have then made an addLink call without ports
C5_Witness ==
    /\ varied /\ ports # portsB
    /\ last.op = "addLink" /\ ~last.raised /\ ~last.varied
    /\ last.port1 = None /\ last.port2 = None
    /\ lastB = <<last.sport, last.dport>>

\* C6 as stated: every name nodes() lists was registered by an earlier
\* add_node or role-adder call.
C6_OnlyRegistered == nodes \subseteq registered

\* the endpoints of the addLink calls that returned
linked == {n \in AllNames : nlinks[n] > 0}

\* C6 amended: every name nodes() lists was registered by add_node or a
\* role adder, or was given metadata by set_node_info and then used as an
\* endpoint of an addLink call that returned; an addLink call that raises
\* adds no node.
C6_RegisteredOrInfoLinked ==
    /\ nodes \ registered \subseteq infoNames \cap linked
    /\ nodes \subseteq DOMAIN node_info

\* a name given metadata by set_node_info alone is listed after an addLink
\* call at it, and a later addLink call with an endpoint that has no
\* metadata has raised and added no node
C6_Witness ==
    /\ last.op = "addLink" /\ last.raised
    /\ (last.node1 \notin nodes \/ last.node2 \notin nodes)
    /\ nodes \ registered # {}

\* C7 as stated: link_info(a,b) raises whenever no addLink call between a
\* and b has returned.
C7_RaisesWithoutLink ==
    \A a \in Names, b \in Names :
        count[sorted(a, b)] = 0 => linkInfoRaises(a, b)

\* C7 amended: link_info(a,b) raises exactly when no addLink call between a
\* and b has returned and set_link_info was never called for the pair.
C7_RaisesWithoutEntry ==
    \A a \in Names, b \in Names :
        linkInfoRaises(a, b) <=>
            (count[sorted(a, b)] = 0 /\ sorted(a, b) \notin infoPairs)

\* one pair has a link, looked up in the other argument order, and another
\* pair has none
C7_Witness ==
    /\ \E k \in Keys :
          /\ count[k] > 0 /\ k[1] # k[2]
          /\ recent[k].node1 = k[1]
          /\ ~linkInfoRaises(k[2], k[1])
    /\ \E a \in Names, b \in Names : linkInfoRaises(a, b)

\* what C8 states of the pair with key k
C8_Pair(k) ==
    LET r == recent[k] IN
    /\ occurrences(links(TRUE), k) = count[k]
    /\ ~linkInfoRaises(r.node1, r.node2)
    /\ linkInfo(r.node1, r.node2) = r.opts
    /\ linkInfo(r.node2, r.node1) = r.opts
    /\ port(ports, r.node1, r.node2) = <<r.sport, r.dport>>
    /\ port(ports, r.node2, r.node1) = <<r.dport, r.sport>>

C9_FailedLinkCommitsNothing ==
    [][(last'.op = "addLink" /\ (noInfo(last'.node1) \/ noInfo(last'.node2))) =>
        /\ last'.raised
        /\ data' = data
        /\ link_info' = link_info
        /\ \A x \in AllNames, y \in AllNames : port(ports', x, y) = port(ports, x, y)
        /\ DOMAIN ports' \subseteq DOMAIN ports \cup {last'.node1, last'.node2}
        /\ \A n \in DOMAIN ports' :
              ports'[n] = IF n \in DOMAIN ports THEN ports[n] ELSE EmptyTable
      ]_vars

\* addLink has raised on its second endpoint after the lookup of the first
\* succeeded, and a link recorded earlier is still in place
C9_Witness ==
    /\ last.op = "addLink" /\ last.raised
    /\ ~noInfo(last.node1) /\ noInfo(last.node2)
    /\ ports[last.node2] = EmptyTable
    /\ Len(edges(data)) > 0

\* C10 as stated: every pair edges() and links(sort=False) yield is in
\* natural-order canonical form and is the key addLink returned.
C10_EdgesCanonical ==
    /\ \A i \in 1..Len(edges(data)) :
          edges(data)[i] = sorted(edges(data)[i][1], edges(data)[i][2])
    /\ \A i \in 1..Len(links(FALSE)) : count[links(FALSE)[i]] > 0
    /\ (last.op = "addLink" /\ ~last.raised) =>
          occurrences(links(FALSE), last.key) > 0

\* C10 amended: every pair edges() and links(sort=False) yield has src and
\* dest in the order of the built-in string comparison; its natural-order
\* form is a key that addLink returned and that holds link metadata, and
\* the key addLink returns is listed by links() as it is and by
\* links(sort=False) in one of the two orders.
C10_EdgesBuiltinOrder ==
    /\ \A i \in 1..Len(edges(data)) :
          LET e == edges(data)[i] IN
          /\ ~strLess(Chars(e[2]), Chars(e[1]))
          /\ count[sorted(e[1], e[2])] > 0
          /\ ~linkInfoRaises(e[1], e[2])
    /\ (last.op = "addLink" /\ ~last.raised) =>
          /\ occurrences(links(TRUE), last.key) > 0
          /\ occurrences(links(FALSE), last.key)
                + occurrences(links(FALSE), <<last.key[2], last.key[1]>>) > 0

\* addLink has returned the key (h2, h10) and edges() yields (h10, h2)
C10_Witness ==
    /\ last.op = "addLink" /\ ~last.raised /\ last.key = <<"h2", "h10">>
    /\ occurrences(edges(data), <<"h10", "h2">>) > 0
    /\ occurrences(links(TRUE), <<"h2", "h10">>) > 0

====
